---- MODULE Spec2Model ----
(***************************************************************************)
(* AKKOR KARIKATUR (src/index.tsx): the App component's view state, its    *)
(* event handlers and the two asynchronous operations they start (the      *)
(* FileReader read of fileToBase64 and the generateContent call).          *)
(*                                                                         *)
(* Strings are TLA+ strings; the emoji that end two of the source's        *)
(* messages are left out of the literals (the lexer does not take them).   *)
(* An async handler is one action up to its await and one action per way   *)
(* the awaited promise settles.                                            *)
(***************************************************************************)
EXTENDS Naturals, Sequences, FiniteSets, Bags, TLC

VARIABLES
    image,            \* useState: { file, preview, base64 }
    imageType,        \* useState: category
    imageStyle,       \* useState: style
    instructions,     \* useState: free text
    generatedImage,   \* useState: data URL of the result, "" when none
    loading,          \* useState: request outstanding
    statusMessage,    \* useState: message shown, "" when none
    isError,          \* useState: message is an error
    reading,          \* handleImageChange calls suspended at await fileToBase64
    objectUrls,       \* number of URL.createObjectURL calls so far
    requests,         \* generateContent calls not yet settled (a bag of their contents)
    downloaded,       \* the link last clicked by handleDownload
    newSelection,     \* history: a file was chosen since the outstanding call was issued
    selections        \* history: the files chosen, in order, and how the read of each ended

\* The program's variables.
view == <<image, imageType, imageStyle, instructions, generatedImage, loading,
          statusMessage, isError, reading, objectUrls, requests, downloaded>>

vars == <<view, newSelection, selections>>

----------------------------------------------------------------------------
(* Bounds of the model. *)

\* file selections (object URLs created) in one behaviour
MaxSelections == 2

----------------------------------------------------------------------------
(* Inputs. *)

NoFile == "null"

\* The files the user can pick, with the type and the bytes (base64) of each.
Files == {"a.png", "b.jpg"}
FileType(f) == IF f = "a.png" THEN "image/png" ELSE "image/jpeg"
FileBytes(f) == IF f = "a.png" THEN "QUFB" ELSE "QkJC"

styleOptions ==
    <<"Cat Air", "Impresionis", "Digital Art", "Lukisan Minyak", "Sketsa Pensil",
      "3D Kartun", "Anime", "Stiker Lucu", "Komik US", "Klasik">>

typeOptions == <<"Seni Lukis", "Karikatur">>

\* The options the model's user picks among, and the texts the user types.
StyleInputs == {styleOptions[6], styleOptions[7]}
TypeInputs == {typeOptions[1], typeOptions[2]}
InstructionInputs == {"", "latar taman"}

\* What Date.now() can return when the download link is built.
Timestamps == {"1700000000000"}

\* Content parts of a response.
TextPart == [text |-> "ok"]
ImagePart(d, m) == [inlineData |-> [data |-> d, mimeType |-> m]]
PngPart == ImagePart("UE5H", "image/png")
JpegPart == ImagePart("SlBH", "image/jpeg")
Candidate(ps) == [content |-> [parts |-> ps]]

\* The responses generateContent can resolve with: no candidates at all, a
\* candidate without content, candidates with and without image parts.
Responses ==
    { [promptFeedback |-> "BLOCKED"],
      [candidates |-> <<>>],
      [candidates |-> << [finishReason |-> "SAFETY"] >>],
      [candidates |-> << Candidate(<<TextPart>>) >>],
      [candidates |-> << Candidate(<<TextPart, PngPart>>) >>],
      [candidates |-> << Candidate(<<JpegPart, PngPart>>) >>],
      [candidates |-> << Candidate(<<TextPart>>), Candidate(<<PngPart>>) >>] }

\* The values generateContent can reject with: an Error with a message, or a
\* value that is no Error.
Rejections ==
    { [isErrorObject |-> TRUE, message |-> "Failed to fetch"],
      [isErrorObject |-> TRUE, message |-> ""],
      [isErrorObject |-> FALSE, message |-> ""] }

----------------------------------------------------------------------------
(* The fixed messages. *)

MissingInputMessage ==
    "Silakan unggah foto dan pilih gaya terlebih dahulu sebelum membuat karikatur ."
SuccessMessage ==
    "Gambar AKKOR KARIKATUR kamu sudah siap! Kamu bisa download atau ubah gaya lagi."
NoImageMessage ==
    "Gagal menghasilkan gambar. Coba lagi dengan prompt atau gambar yang berbeda."
UnknownErrorMessage == "Terjadi kesalahan yang tidak diketahui."

----------------------------------------------------------------------------
(* Strings. *)

\* The first position >= i of character c in s, 0 when there is none.
RECURSIVE IndexOf(_, _, _)
IndexOf(s, c, i) ==
    IF i > Len(s) THEN 0
    ELSE IF SubSeq(s, i, i) = c THEN i
    ELSE IndexOf(s, c, i + 1)

\* String.prototype.split with a one-character separator.
RECURSIVE Split(_, _)
Split(s, c) ==
    LET k == IndexOf(s, c, 1)
    IN  IF k = 0 THEN <<s>>
        ELSE <<SubSeq(s, 1, k - 1)>> \o Split(SubSeq(s, k + 1, Len(s)), c)

Digits == <<"0", "1", "2", "3", "4", "5", "6", "7", "8", "9">>

\* URL.createObjectURL: the n-th call returns a URL no other call returns.
createObjectURL(n) == "blob:" \o Digits[n + 1]

\* FileReader.readAsDataURL: the data URL of the file's bytes.
readAsDataURL(f) == "data:" \o FileType(f) \o ";base64," \o FileBytes(f)

\* fileToBase64's onload: element 1 of the data URL split at its commas (the
\* text between the first comma and the next, or the end).
fileToBase64(f) == Split(readAsDataURL(f), ",")[2]

----------------------------------------------------------------------------
(* What the view renders. *)

\* {!generatedImage && <form ...>}
FormVisible == generatedImage = ""

\* (mutant) the control is disabled only while no image is present
SubmitDisabled_onlyWithoutImage == image.file = NoFile

\* <button type="submit" disabled={loading || !image.file}>
SubmitDisabled == loading \/ image.file = NoFile

\* the submit control is on the page and can be pressed
SubmitEnabled == FormVisible /\ ~SubmitDisabled

\* {(loading || statusMessage) && ... {generatedImage && <buttons>}}
ResultVisible == (loading \/ statusMessage # "") /\ generatedImage # ""

----------------------------------------------------------------------------
(* Initial state: the useState defaults. *)

Init ==
    /\ image = [file |-> NoFile, preview |-> "", base64 |-> ""]
    /\ imageType = "Karikatur"
    /\ imageStyle = "3D Kartun"
    /\ instructions = ""
    /\ generatedImage = ""
    /\ loading = FALSE
    /\ statusMessage = ""
    /\ isError = FALSE
    /\ reading = {}
    /\ objectUrls = 0
    /\ requests = EmptyBag
    /\ downloaded = [href |-> "", download |-> ""]
    /\ newSelection = FALSE
    /\ selections = <<>>

----------------------------------------------------------------------------
(* handleImageChange. *)

\* Up to the await: the chosen file (none when the picker is cancelled) gets an
\* object URL and its read starts.
handleImageChange(f) ==
    IF f = NoFile
    THEN UNCHANGED view
    ELSE /\ objectUrls' = objectUrls + 1
         /\ reading' = reading \cup
                {[file |-> f, preview |-> createObjectURL(objectUrls + 1)]}
         /\ UNCHANGED <<image, imageType, imageStyle, instructions, generatedImage,
                        loading, statusMessage, isError, requests, downloaded>>

\* (mutant) a new image also takes the shown result and message away
handleImageChange_resume_clearsResult(r) ==
    /\ image' = [file |-> r.file, preview |-> r.preview, base64 |-> fileToBase64(r.file)]
    /\ reading' = reading \ {r}
    /\ generatedImage' = ""
    /\ statusMessage' = ""
    /\ UNCHANGED <<imageType, imageStyle, instructions, loading, isError, objectUrls,
                   requests, downloaded>>

\* (mutant) the preview is the object URL created last, not the one created
\* for the file that was read
handleImageChange_resume_latestPreview(r) ==
    /\ image' = [file |-> r.file, preview |-> createObjectURL(objectUrls),
                 base64 |-> fileToBase64(r.file)]
    /\ reading' = reading \ {r}
    /\ UNCHANGED <<imageType, imageStyle, instructions, generatedImage, loading,
                   statusMessage, isError, objectUrls, requests, downloaded>>

\* After the await, the read having succeeded: setImage({ file, preview, base64 }).
handleImageChange_resume(r) ==
    /\ image' = [file |-> r.file, preview |-> r.preview, base64 |-> fileToBase64(r.file)]
    /\ reading' = reading \ {r}
    /\ UNCHANGED <<imageType, imageStyle, instructions, generatedImage, loading,
                   statusMessage, isError, objectUrls, requests, downloaded>>

\* (mutant) a failed read takes the uploaded image away
handleImageChange_rejected_clearsImage(r) ==
    /\ image' = [file |-> NoFile, preview |-> "", base64 |-> ""]
    /\ reading' = reading \ {r}
    /\ UNCHANGED <<imageType, imageStyle, instructions, generatedImage, loading,
                   statusMessage, isError, objectUrls, requests, downloaded>>

\* The read having failed: the await throws, the handler's promise rejects and
\* nothing is set.
handleImageChange_rejected(r) ==
    /\ reading' = reading \ {r}
    /\ UNCHANGED <<image, imageType, imageStyle, instructions, generatedImage, loading,
                   statusMessage, isError, objectUrls, requests, downloaded>>

----------------------------------------------------------------------------
(* handleSubmit. *)

\* (mutant) only the image is validated
MissingInput_onlyImage == image.file = NoFile

\* if (!image.file || !imageStyle)
MissingInput == image.file = NoFile \/ imageStyle = ""

\* (mutant) the details clause is appended whether or not there are instructions
BuildPrompt_alwaysDetails(type, style, instr) ==
    "Ubah foto berikut menjadi " \o type \o " dengan gaya " \o style \o "."
        \o " Tambahkan detail: " \o instr \o "."

\* let prompt = `...`; if (instructions) prompt += `...`
BuildPrompt(type, style, instr) ==
    LET prompt == "Ubah foto berikut menjadi " \o type \o " dengan gaya " \o style \o "."
    IN  IF instr # ""
        THEN prompt \o " Tambahkan detail: " \o instr \o "."
        ELSE prompt

\* The contents of the generateContent call.
BuildRequest ==
    [data |-> image.base64,
     mimeType |-> FileType(image.file),
     prompt |-> BuildPrompt(imageType, imageStyle, instructions)]

\* (mutant) a submission leaves the previous status message in place
handleSubmit_keepsMessage ==
    IF MissingInput
    THEN /\ statusMessage' = MissingInputMessage
         /\ isError' = TRUE
         /\ UNCHANGED <<image, imageType, imageStyle, instructions, generatedImage,
                        loading, reading, objectUrls, requests, downloaded>>
    ELSE /\ loading' = TRUE
         /\ generatedImage' = ""
         /\ statusMessage' = statusMessage
         /\ isError' = FALSE
         /\ requests' = requests (+) SetToBag({BuildRequest})
         /\ UNCHANGED <<image, imageType, imageStyle, instructions, reading,
                        objectUrls, downloaded>>

\* (mutant) a submission leaves the previous error flag in place
handleSubmit_keepsError ==
    IF MissingInput
    THEN /\ statusMessage' = MissingInputMessage
         /\ isError' = TRUE
         /\ UNCHANGED <<image, imageType, imageStyle, instructions, generatedImage,
                        loading, reading, objectUrls, requests, downloaded>>
    ELSE /\ loading' = TRUE
         /\ generatedImage' = ""
         /\ statusMessage' = ""
         /\ isError' = isError
         /\ requests' = requests (+) SetToBag({BuildRequest})
         /\ UNCHANGED <<image, imageType, imageStyle, instructions, reading,
                        objectUrls, downloaded>>

\* Up to the await.
handleSubmit ==
    IF MissingInput
    THEN /\ statusMessage' = MissingInputMessage
         /\ isError' = TRUE
         /\ UNCHANGED <<image, imageType, imageStyle, instructions, generatedImage,
                        loading, reading, objectUrls, requests, downloaded>>
    ELSE /\ loading' = TRUE
         /\ generatedImage' = ""
         /\ statusMessage' = ""
         /\ isError' = FALSE
         /\ requests' = requests (+) SetToBag({BuildRequest})
         /\ UNCHANGED <<image, imageType, imageStyle, instructions, reading,
                        objectUrls, downloaded>>

\* response.candidates?.[0]?.content?.parts: <<>> when any link is missing.
FirstCandidateParts(response) ==
    IF "candidates" \notin DOMAIN response THEN <<>>
    ELSE IF Len(response.candidates) = 0 THEN <<>>
    ELSE IF "content" \notin DOMAIN response.candidates[1] THEN <<>>
    ELSE IF "parts" \notin DOMAIN response.candidates[1].content THEN <<>>
    ELSE response.candidates[1].content.parts

\* ?.find(part => part.inlineData): <<the first such part>>, or <<>> for undefined.
FindImagePart(response) ==
    LET parts == FirstCandidateParts(response)
        hits == {i \in 1..Len(parts) : "inlineData" \in DOMAIN parts[i]}
    IN  IF hits = {} THEN <<>>
        ELSE <<parts[CHOOSE i \in hits : \A j \in hits : i <= j]>>

\* (mutant) the media type is taken to be PNG whatever the part declares
ImageUrl_alwaysPng(part) == "data:image/png;base64," \o part.inlineData.data

\* `data:${mimeType};base64,${base64ImageBytes}`
ImageUrl(part) ==
    "data:" \o part.inlineData.mimeType \o ";base64," \o part.inlineData.data

\* (mutant) whatever was thrown, the fallback message is shown
CatchMessage_fallbackOnly(error) == "Error: " \o UnknownErrorMessage

\* error instanceof Error ? error.message : "..."; `Error: ${errorMessage}`
CatchMessage(error) ==
    "Error: " \o (IF error.isErrorObject THEN error.message ELSE UnknownErrorMessage)

\* catch (error)
handleSubmit_catch(error) ==
    /\ statusMessage' = CatchMessage(error)
    /\ isError' = TRUE
    /\ UNCHANGED generatedImage

\* (mutant) the loading flag is not cleared
handleSubmit_finally_skipped == UNCHANGED loading

\* finally
handleSubmit_finally == loading' = FALSE

\* (mutant) a response without an image part is not treated as a failure
handleSubmit_resolved_noThrow(request, response) ==
    /\ requests' = requests (-) SetToBag({request})
    /\ LET imagePart == FindImagePart(response)
       IN  IF imagePart # <<>>
           THEN /\ generatedImage' = ImageUrl(imagePart[1])
                /\ statusMessage' = SuccessMessage
                /\ isError' = FALSE
           ELSE UNCHANGED <<generatedImage, statusMessage, isError>>
    /\ handleSubmit_finally
    /\ UNCHANGED <<image, imageType, imageStyle, instructions, reading, objectUrls,
                   downloaded>>

\* After the await, the call of request having resolved with response.
handleSubmit_resolved(request, response) ==
    /\ requests' = requests (-) SetToBag({request})
    /\ LET imagePart == FindImagePart(response)
       IN  IF imagePart # <<>>
           THEN /\ generatedImage' = ImageUrl(imagePart[1])
                /\ statusMessage' = SuccessMessage
                /\ isError' = FALSE
           ELSE handleSubmit_catch([isErrorObject |-> TRUE, message |-> NoImageMessage])
    /\ handleSubmit_finally
    /\ UNCHANGED <<image, imageType, imageStyle, instructions, reading, objectUrls,
                   downloaded>>

\* (mutant) the loading flag is cleared at the end of the try block, not in a
\* finally: a rejected call leaves it raised
handleSubmit_rejected_noFinally(request, error) ==
    /\ requests' = requests (-) SetToBag({request})
    /\ handleSubmit_catch(error)
    /\ UNCHANGED <<loading, image, imageType, imageStyle, instructions, reading,
                   objectUrls, downloaded>>

\* After the await, the call of request having rejected with error.
handleSubmit_rejected(request, error) ==
    /\ requests' = requests (-) SetToBag({request})
    /\ handleSubmit_catch(error)
    /\ handleSubmit_finally
    /\ UNCHANGED <<image, imageType, imageStyle, instructions, reading, objectUrls,
                   downloaded>>

----------------------------------------------------------------------------
(* handleDownload, handleChangeStyle. *)

handleDownload(now) ==
    IF generatedImage = ""
    THEN UNCHANGED view
    ELSE /\ downloaded' = [href |-> generatedImage,
                           download |-> "akkor-karikatur-" \o now \o ".png"]
         /\ UNCHANGED <<image, imageType, imageStyle, instructions, generatedImage,
                        loading, statusMessage, isError, reading, objectUrls, requests>>

\* (mutant) the status message is not cleared
handleChangeStyle_keepsMessage ==
    /\ generatedImage' = ""
    /\ isError' = FALSE
    /\ UNCHANGED <<statusMessage, image, imageType, imageStyle, instructions, loading,
                   reading, objectUrls, requests, downloaded>>

handleChangeStyle ==
    /\ generatedImage' = ""
    /\ statusMessage' = ""
    /\ isError' = FALSE
    /\ UNCHANGED <<image, imageType, imageStyle, instructions, loading, reading,
                   objectUrls, requests, downloaded>>

----------------------------------------------------------------------------
(* The events. A control takes events only while it is rendered. *)

\* onChange of the file input
SelectImage(f) ==
    /\ FormVisible
    /\ f = NoFile \/ objectUrls < MaxSelections
    /\ handleImageChange(f)

\* reader.onload
FileLoaded(r) == handleImageChange_resume(r)

\* reader.onerror
FileFailed(r) == handleImageChange_rejected(r)

\* onChange of the category select: another option is picked
SetImageType(v) ==
    /\ FormVisible
    /\ v # imageType
    /\ imageType' = v
    /\ UNCHANGED <<image, imageStyle, instructions, generatedImage, loading,
                   statusMessage, isError, reading, objectUrls, requests, downloaded>>

\* onChange of the style select: another option is picked
SetImageStyle(v) ==
    /\ FormVisible
    /\ v # imageStyle
    /\ imageStyle' = v
    /\ UNCHANGED <<image, imageType, instructions, generatedImage, loading,
                   statusMessage, isError, reading, objectUrls, requests, downloaded>>

\* (mutant) the outstanding requests follow the edited text
SetInstructions_rewritesRequests(v) ==
    /\ FormVisible
    /\ v # instructions
    /\ instructions' = v
    /\ requests' = SetToBag({[r EXCEPT !.prompt = BuildPrompt(imageType, imageStyle, v)] :
                                r \in BagToSet(requests)})
    /\ UNCHANGED <<image, imageType, imageStyle, generatedImage, loading,
                   statusMessage, isError, reading, objectUrls, downloaded>>

\* onChange of the textarea: the text is edited
SetInstructions(v) ==
    /\ FormVisible
    /\ v # instructions
    /\ instructions' = v
    /\ UNCHANGED <<image, imageType, imageStyle, generatedImage, loading,
                   statusMessage, isError, reading, objectUrls, requests, downloaded>>

\* The user presses the submit control: onSubmit of the form.
Submit ==
    /\ SubmitEnabled
    /\ handleSubmit

\* A submit event reaches the form: through the enabled submit control or, the
\* input being incomplete, by a way that does not pass the control
\* (form.requestSubmit(), a test calling the handler).
SubmitEvent ==
    /\ FormVisible
    /\ ~SubmitDisabled \/ image.file = NoFile \/ imageStyle = ""
    /\ handleSubmit

GenerateResolved(request, response) == handleSubmit_resolved(request, response)

GenerateRejected(request, error) == handleSubmit_rejected(request, error)

\* onClick of "Download Gambar"
Download(now) ==
    /\ ResultVisible
    /\ handleDownload(now)

\* onClick of "Ubah Gaya Lagi"
ChangeStyle ==
    /\ ResultVisible
    /\ handleChangeStyle

\* The history variable newSelection (it models no code and no handler reads
\* it): cleared when a call is issued with none outstanding and when the last
\* outstanding call settles, set when a file is chosen meanwhile. The history of
\* the selections is not kept here.
History ==
    /\ newSelection' =
          IF requests' = EmptyBag \/ requests = EmptyBag
          THEN FALSE
          ELSE newSelection \/ objectUrls' > objectUrls
    /\ UNCHANGED selections

\* Neither history variable is kept.
NoHistory == UNCHANGED <<newSelection, selections>>

\* The history variable selections (it models no code and no handler reads it):
\* choosing file f adds it as pending, ...
Chosen(f) ==
    /\ selections' = IF f = NoFile THEN selections
                     ELSE Append(selections, [file |-> f, outcome |-> "pending"])
    /\ UNCHANGED newSelection

\* ... and the read r ending records its outcome with the selection whose
\* object URL r carries.
ReadEnded(r, outcome) ==
    /\ selections' = [n \in DOMAIN selections |->
                        IF createObjectURL(n) = r.preview
                        THEN [selections[n] EXCEPT !.outcome = outcome]
                        ELSE selections[n]]
    /\ UNCHANGED newSelection

\* The pending generateContent call settles, either way.
Settle ==
    \E request \in BagToSet(requests) :
        \/ \E response \in Responses : GenerateResolved(request, response) /\ History
        \/ \E error \in Rejections : GenerateRejected(request, error) /\ History

\* The program driven through its page.
Next ==
    \/ \E f \in Files \cup {NoFile} : SelectImage(f) /\ History
    \/ \E r \in reading : FileLoaded(r) /\ History
    \/ \E r \in reading : FileFailed(r) /\ History
    \/ \E v \in TypeInputs : SetImageType(v) /\ History
    \/ \E v \in StyleInputs : SetImageStyle(v) /\ History
    \/ \E v \in InstructionInputs : SetInstructions(v) /\ History
    \/ Submit /\ History
    \/ \E request \in BagToSet(requests), response \in Responses :
            GenerateResolved(request, response) /\ History
    \/ \E request \in BagToSet(requests), error \in Rejections :
            GenerateRejected(request, error) /\ History
    \/ \E now \in Timestamps : Download(now) /\ History
    \/ ChangeStyle /\ History

Spec == Init /\ [][Next]_vars

\* The same with the remote call eventually settling.
LiveSpec == Spec /\ WF_vars(Settle)

\* The program with the two cases the page keeps from handleSubmit let through:
\* a submit event while no image is selected, and a style select left without a
\* value. The history variable is not kept here.
HandlerNext ==
    \/ \E f \in Files \cup {NoFile} : SelectImage(f) /\ NoHistory
    \/ \E r \in reading : FileLoaded(r) /\ NoHistory
    \/ \E r \in reading : FileFailed(r) /\ NoHistory
    \/ \E v \in TypeInputs : SetImageType(v) /\ NoHistory
    \/ \E v \in StyleInputs \cup {""} : SetImageStyle(v) /\ NoHistory
    \/ \E v \in InstructionInputs : SetInstructions(v) /\ NoHistory
    \/ SubmitEvent /\ NoHistory
    \/ \E request \in BagToSet(requests), response \in Responses :
            GenerateResolved(request, response) /\ NoHistory
    \/ \E request \in BagToSet(requests), error \in Rejections :
            GenerateRejected(request, error) /\ NoHistory
    \/ \E now \in Timestamps : Download(now) /\ NoHistory
    \/ ChangeStyle /\ NoHistory

HandlerSpec == Init /\ [][HandlerNext]_vars

\* The program driven through its page, with the history of the selections kept.
SelectionNext ==
    \/ \E f \in Files \cup {NoFile} : SelectImage(f) /\ Chosen(f)
    \/ \E r \in reading : FileLoaded(r) /\ ReadEnded(r, "loaded")
    \/ \E r \in reading : FileFailed(r) /\ ReadEnded(r, "failed")
    \/ \E v \in TypeInputs : SetImageType(v) /\ NoHistory
    \/ \E v \in StyleInputs : SetImageStyle(v) /\ NoHistory
    \/ \E v \in InstructionInputs : SetInstructions(v) /\ NoHistory
    \/ Submit /\ NoHistory
    \/ \E request \in BagToSet(requests), response \in Responses :
            GenerateResolved(request, response) /\ NoHistory
    \/ \E request \in BagToSet(requests), error \in Rejections :
            GenerateRejected(request, error) /\ NoHistory
    \/ \E now \in Timestamps : Download(now) /\ NoHistory
    \/ ChangeStyle /\ NoHistory

SelectionSpec == Init /\ [][SelectionNext]_vars

----------------------------------------------------------------------------
(* Claims. *)

\* A generateContent call is issued by this step.
Issued == BagCardinality(requests') > BagCardinality(requests)

\* An outstanding generateContent call settles in this step.
Settled == BagCardinality(requests') < BagCardinality(requests)

\* C1: under the page's events at most one generation request is outstanding at
\* any time, and a request is issued only from a state where loading is false and
\* an image is present (the submit control is disabled otherwise).
C1_AtMostOneRequest ==
    /\ [](BagCardinality(requests) <= 1)
    /\ [][Issued => ~loading /\ image.file # NoFile]_vars

\* C1 witness: a request is outstanding while the user has picked another file.
C1_Witness ==
    /\ BagCardinality(requests) = 1
    /\ loading
    /\ reading # {}

\* C2: a submit with no image selected, or with no style chosen, issues no call,
\* leaves the loading flag as it was, and yields the missing-input message with
\* the error flag set.
C2_MissingInputNoCall ==
    [][(SubmitEvent /\ (image.file = NoFile \/ imageStyle = ""))
          => /\ requests' = requests
             /\ loading' = loading
             /\ statusMessage' = MissingInputMessage
             /\ isError']_vars

\* C2 witness: an image is selected, no style is chosen, and the submit has
\* yielded the missing-input error with no call outstanding.
C2_Witness ==
    /\ image.file # NoFile
    /\ imageStyle = ""
    /\ statusMessage = MissingInputMessage
    /\ isError
    /\ ~loading
    /\ requests = EmptyBag

\* C3 as stated: after any terminal outcome the loading flag is false and, an
\* image being selected, the submit control is enabled.
C3_Original ==
    [][Settled => ~loading' /\ (image'.file # NoFile => SubmitEnabled')]_vars

\* C3 amended: after any terminal outcome the loading flag is false and, an image
\* being selected, the submit control is not disabled; after an error it is on
\* the page and enabled, after a success the form is not rendered, and the
\* change-style action brings it back with the control enabled.
C3_Amended ==
    [][/\ Settled =>
            /\ ~loading'
            /\ image'.file # NoFile => ~SubmitDisabled'
            /\ image'.file # NoFile /\ generatedImage' = "" => SubmitEnabled'
            /\ generatedImage' # "" => ~FormVisible'
       /\ (generatedImage # "" /\ generatedImage' = "" /\ image'.file # NoFile)
            => SubmitEnabled'
      ]_vars

\* C3 witness: a submission has ended in success with the image still selected.
C3_Witness ==
    /\ generatedImage # ""
    /\ statusMessage = SuccessMessage
    /\ ~loading
    /\ image.file # NoFile
    /\ requests = EmptyBag

\* C4: with the remote call eventually settling, every submission that raises
\* the loading flag leads to a state where it is cleared and either a result or
\* an error message is shown.
C4_LoadingEnds ==
    loading ~> (~loading /\ (generatedImage # "" \/ (isError /\ statusMessage # "")))

\* C4 witness: a submission has left Loading through a rejected call.
C4_Witness ==
    /\ ~loading
    /\ isError
    /\ statusMessage = "Error: Failed to fetch"
    /\ generatedImage = ""
    /\ requests = EmptyBag

\* C5: the step that takes a shown result away clears the status message and the
\* error flag, shows the form again, and leaves the uploaded image and the
\* category, style and instructions fields as they were.
C5_ChangeStyleFrame ==
    [][(generatedImage # "" /\ generatedImage' = "")
          => /\ statusMessage' = ""
             /\ ~isError'
             /\ FormVisible'
             /\ image' = image
             /\ imageType' = imageType
             /\ imageStyle' = imageStyle
             /\ instructions' = instructions]_vars

\* C5 witness: a result was shown and downloaded, and change style has brought
\* the empty form back with the image still selected.
C5_Witness ==
    /\ downloaded.href # ""
    /\ generatedImage = ""
    /\ statusMessage = ""
    /\ ~loading
    /\ image.file # NoFile

\* The response holds no content part with inline data, in any candidate.
NoInlineData(response) ==
    \/ "candidates" \notin DOMAIN response
    \/ \A c \in 1..Len(response.candidates) :
          \/ "content" \notin DOMAIN response.candidates[c]
          \/ \A i \in 1..Len(response.candidates[c].content.parts) :
                "inlineData" \notin DOMAIN response.candidates[c].content.parts[i]

\* C6: a call that resolves with a response holding no inline image data ends in
\* the no-image-produced error: the error flag set, the fixed message, no result.
C6_NoImageIsError ==
    [][\A request \in BagToSet(requests), response \in Responses :
          (GenerateResolved(request, response) /\ NoInlineData(response))
             => /\ isError'
                /\ statusMessage' = "Error: " \o NoImageMessage
                /\ generatedImage' = ""
                /\ ~loading']_vars

\* C6 witness: a submission has ended in the no-image-produced error.
C6_Witness ==
    /\ isError
    /\ statusMessage = "Error: " \o NoImageMessage
    /\ generatedImage = ""
    /\ ~loading

\* The inline data of the response's content parts, over all candidates.
AllInlineData(response) ==
    IF "candidates" \notin DOMAIN response THEN {}
    ELSE UNION { IF "content" \notin DOMAIN response.candidates[c] THEN {}
                 ELSE { response.candidates[c].content.parts[i].inlineData :
                          i \in { j \in 1..Len(response.candidates[c].content.parts) :
                                    "inlineData" \in
                                      DOMAIN response.candidates[c].content.parts[j] } } :
                 c \in 1..Len(response.candidates) }

\* The inline data of the first candidate's content parts, in their order.
RECURSIVE InlineDataOf(_)
InlineDataOf(parts) ==
    IF parts = <<>> THEN <<>>
    ELSE (IF "inlineData" \in DOMAIN Head(parts) THEN <<Head(parts).inlineData>> ELSE <<>>)
            \o InlineDataOf(Tail(parts))

FirstCandidateInlineData(response) ==
    IF "candidates" \notin DOMAIN response THEN <<>>
    ELSE IF response.candidates = <<>> THEN <<>>
    ELSE IF "content" \notin DOMAIN Head(response.candidates) THEN <<>>
    ELSE InlineDataOf(Head(response.candidates).content.parts)

\* What a data URL "data:<type>;base64,<data>" decodes to.
DataUrlType(url) == SubSeq(url, 6, IndexOf(url, ";", 1) - 1)
DataUrlData(url) == SubSeq(url, IndexOf(url, ",", 1) + 1, Len(url))

\* The step ends in Success showing the image of inline data d.
SuccessShowing(d) ==
    /\ ~isError'
    /\ ~loading'
    /\ statusMessage' = SuccessMessage
    /\ generatedImage' # ""
    /\ SubSeq(generatedImage', 1, 5) = "data:"
    /\ DataUrlType(generatedImage') = d.mimeType
    /\ DataUrlData(generatedImage') = d.data

\* C7 as stated: a call that resolves with a response holding inline image data
\* in any content part ends in Success, the shown image's data and media type
\* being those of such a part.
C7_Original ==
    [][\A request \in BagToSet(requests), response \in Responses :
          (GenerateResolved(request, response) /\ AllInlineData(response) # {})
             => \E d \in AllInlineData(response) : SuccessShowing(d)]_vars

\* C7 amended: a call that resolves with a response whose first candidate holds
\* inline image data in a content part ends in Success, the shown image's data
\* and media type being those of the first such part.
C7_Amended ==
    [][\A request \in BagToSet(requests), response \in Responses :
          (GenerateResolved(request, response)
              /\ FirstCandidateInlineData(response) # <<>>)
             => SuccessShowing(FirstCandidateInlineData(response)[1])]_vars

\* C7 witness: the response whose first part is the JPEG and second the PNG has
\* ended in Success showing the JPEG.
C7_Witness ==
    /\ generatedImage = "data:image/jpeg;base64,SlBH"
    /\ statusMessage = SuccessMessage
    /\ ~isError
    /\ ~loading

\* The fixed sentence and the details clause.
PromptSentence(type, style) ==
    "Ubah foto berikut menjadi " \o type \o " dengan gaya " \o style \o "."
PromptDetails(instr) == " Tambahkan detail: " \o instr \o "."

\* C8: the prompt of the request a submit issues is the fixed sentence of the
\* category and style of that moment, followed by the details clause of the
\* instructions exactly when they are non-empty, and by nothing when empty.
C8_PromptAssembly ==
    [][Issued =>
          \E r \in BagToSet(requests') :
              /\ requests' = requests (+) SetToBag({r})
              /\ SubSeq(r.prompt, 1, Len(PromptSentence(imageType, imageStyle)))
                    = PromptSentence(imageType, imageStyle)
              /\ (instructions = "")
                    <=> (Len(r.prompt) = Len(PromptSentence(imageType, imageStyle)))
              /\ instructions # "" =>
                    r.prompt = PromptSentence(imageType, imageStyle)
                                  \o PromptDetails(instructions)]_vars

\* C8 witness: a request with a details clause is outstanding, and its category
\* and style are not the defaults.
C8_Witness ==
    \E r \in BagToSet(requests) :
        r.prompt = "Ubah foto berikut menjadi Seni Lukis dengan gaya Anime."
                      \o " Tambahkan detail: latar taman."

\* C9: a step that starts a file selection or completes one (replacing the
\* uploaded image by the file, preview and bytes of that selection) leaves the
\* loading flag, the shown result, the status message and the error flag as
\* they were; a shown result is taken away only by a submit or by change style.
C9_SelectionFrame ==
    [][/\ (image' # image \/ reading' # reading) =>
            /\ loading' = loading
            /\ generatedImage' = generatedImage
            /\ statusMessage' = statusMessage
            /\ isError' = isError
       /\ image' # image =>
            \E r \in reading :
                image' = [file |-> r.file, preview |-> r.preview,
                          base64 |-> FileBytes(r.file)]
       /\ (generatedImage # "" /\ generatedImage' = "") => (Submit \/ ChangeStyle)
      ]_vars

\* C9 witness: a second selection has replaced the uploaded image and a result
\* is shown.
C9_Witness ==
    /\ generatedImage # ""
    /\ statusMessage = SuccessMessage
    /\ image.preview = createObjectURL(2)
    /\ objectUrls = 2
    /\ reading = {}

\* C10 as stated: when the user has chosen a new file while a generation request
\* was outstanding, the outcome of that request is never displayed. Stated for
\* the result image and for the case where the new file, another one, has
\* already replaced the uploaded image when the request settles.
C10_Original ==
    [][(/\ Settled
        /\ newSelection
        /\ \A r \in BagToSet(requests) : r.data # image.base64)
          => generatedImage' = ""]_vars

\* The object URLs that have been released: the source creates one per
\* selection and calls URL.revokeObjectURL nowhere.
revokedObjectURLs == {}

\* The object URLs that have been created and not released.
liveObjectURLs == {createObjectURL(n) : n \in 1..objectUrls} \ revokedObjectURLs

\* C11 as stated: when a new image is chosen the previous one's preview
\* reference is released, so the only preview reference created and not released
\* is the one of the currently selected image. Stated for the states where the
\* file chosen last has become the uploaded image and no read is pending.
C11_Original ==
    (/\ reading = {}
     /\ objectUrls > 0
     /\ image.preview = createObjectURL(objectUrls))
        => liveObjectURLs = {image.preview}

\* The extension of a file name: what follows its last dot.
Extension(name) == Split(name, ".")[Len(Split(name, "."))]

\* The extensions in use for a media type.
ExtensionsOf(mimeType) ==
    IF mimeType = "image/png" THEN {"png"}
    ELSE IF mimeType = "image/jpeg" THEN {"jpg", "jpeg"}
    ELSE {}

\* C12 as stated: the displayed result is exported under a file name whose
\* extension matches the media type of the displayed result image, for every
\* media type the service can return.
C12_Original ==
    downloaded.href # "" =>
        Extension(downloaded.download) \in ExtensionsOf(DataUrlType(downloaded.href))

\* C13: in every reachable state the uploaded image is a consistent triple: it
\* is empty, or its file, its preview reference and its encoded payload are
\* those of one and the same selection, the n-th, whose read has succeeded,
\* whatever the number of selections and the order in which their reads end.
C13_ConsistentTriple ==
    \/ image = [file |-> NoFile, preview |-> "", base64 |-> ""]
    \/ \E n \in DOMAIN selections :
          /\ selections[n].outcome = "loaded"
          /\ image.file = selections[n].file
          /\ image.preview = createObjectURL(n)
          /\ image.base64 = FileBytes(selections[n].file)

\* C13 witness: two different files were chosen, both reads have succeeded, the
\* second one first, and the uploaded image is the first selection's.
C13_Witness ==
    /\ Len(selections) = 2
    /\ selections[1].file # selections[2].file
    /\ \A n \in DOMAIN selections : selections[n].outcome = "loaded"
    /\ image.preview = createObjectURL(1)

\* C14: a step in which the read of a selected file fails updates no view state:
\* the uploaded image (file, preview, payload), the loading flag, the result, the
\* status message and the error flag keep their values.
C14_ReadFailureFrame ==
    [][(\E n \in DOMAIN selections :
            /\ selections[n].outcome = "pending"
            /\ selections'[n].outcome = "failed")
          => /\ image' = image
             /\ loading' = loading
             /\ generatedImage' = generatedImage
             /\ statusMessage' = statusMessage
             /\ isError' = isError]_vars

\* C14 witness: the read of the second selection has failed while the first
\* selection is the uploaded image and a status message is shown.
C14_Witness ==
    /\ Len(selections) = 2
    /\ selections[2].outcome = "failed"
    /\ image.preview = createObjectURL(1)
    /\ image.file = selections[1].file
    /\ statusMessage # ""

\* C15: the step that issues a request raises the loading flag and clears the
\* result, the status message and the error flag, and in every reachable state
\* in which a request is outstanding no result and no status message is shown.
C15_SubmitClears ==
    /\ [][Issued => /\ loading'
                    /\ generatedImage' = ""
                    /\ statusMessage' = ""
                    /\ ~isError']_vars
    /\ [](requests # EmptyBag => generatedImage = "" /\ statusMessage = "")

\* C15 witness: a request is outstanding after an earlier submission has ended
\* in a result that was downloaded.
C15_Witness ==
    /\ requests # EmptyBag
    /\ loading
    /\ downloaded.href # ""
    /\ statusMessage = ""

\* The result, status message and error flag a response leads to, and those a
\* rejection leads to, as functions of the response and of the rejection alone.
ResolvedView(response) ==
    IF FirstCandidateInlineData(response) # <<>>
    THEN <<"data:" \o FirstCandidateInlineData(response)[1].mimeType
              \o ";base64," \o FirstCandidateInlineData(response)[1].data,
           SuccessMessage, FALSE>>
    ELSE <<"", "Error: " \o NoImageMessage, TRUE>>

RejectedView(error) ==
    <<"", "Error: " \o (IF error.isErrorObject THEN error.message
                        ELSE UnknownErrorMessage), TRUE>>

\* C16: the content of a request is that of the view state at submit time
\* (encoded image, media type, prompt); no step but the one issuing it and the
\* one settling it touches the outstanding request, whatever is changed
\* meanwhile; and the step settling it shows what the response or the rejection
\* alone determines and leaves the image, category, style and instructions alone.
C16_RequestFixedAtSubmit ==
    [][/\ Issued =>
            requests' = requests (+) SetToBag({
                [data |-> image.base64, mimeType |-> FileType(image.file),
                 prompt |-> BuildPrompt(imageType, imageStyle, instructions)]})
       /\ (~Issued /\ ~Settled) => requests' = requests
       /\ Settled =>
            /\ <<generatedImage', statusMessage', isError'>> \in
                  {ResolvedView(response) : response \in Responses}
                  \cup {RejectedView(error) : error \in Rejections}
            /\ ~loading'
            /\ UNCHANGED <<image, imageType, imageStyle, instructions>>
      ]_vars

\* C16 witness: a request is outstanding whose encoded image, media type and
\* prompt are no longer those the view state would give.
C16_Witness ==
    \E r \in BagToSet(requests) :
        /\ image.file # NoFile
        /\ r.data # image.base64
        /\ r.mimeType # FileType(image.file)
        /\ r.prompt # BuildPrompt(imageType, imageStyle, instructions)

\* The failure kind a status message and error flag tell.
FailureKind(message, flag) ==
    IF ~flag THEN "none"
    ELSE IF message = MissingInputMessage THEN "missing-input"
    ELSE IF message = "Error: " \o NoImageMessage THEN "no-image-produced"
    ELSE IF Len(message) >= 7 /\ SubSeq(message, 1, 7) = "Error: "
         THEN "transport-or-service"
    ELSE "none"

C18_ResultExcludesError ==
    /\ generatedImage # "" =>
          (~isError /\ ~loading /\ statusMessage = SuccessMessage)
    /\ isError => (statusMessage # "" /\ generatedImage = "")

\* C18 witness: a submission has ended in an error after an earlier one had ended
\* in a result that was downloaded.
C18_Witness ==
    /\ isError
    /\ statusMessage # ""
    /\ generatedImage = ""
    /\ downloaded.href # ""

\* C19 as stated: the most recent selection wins: when several files have been
\* chosen in succession and the reads of all of them have succeeded, in whatever
\* order, the uploaded image is the file chosen last. Stated for a last file
\* that is none of the files chosen before it.
C19_Original ==
    (/\ Len(selections) >= 2
     /\ \A n \in 1..(Len(selections) - 1) :
           selections[n].file # selections[Len(selections)].file
     /\ \A n \in DOMAIN selections : selections[n].outcome = "loaded")
        => /\ image.file = selections[Len(selections)].file
           /\ image.preview = createObjectURL(Len(selections))

====
